---- MODULE Spec2Model ----
(***************************************************************************)
(* Model of run_many_iters_of_gradient_descent (py/autograd_demo.ipynb)    *)
(* and of the caller code around it.                                       *)
(*                                                                         *)
(* Numbers.  Python floats are modelled as fixed-point integers counting   *)
(* units of 1/Scale.  The only rounding points are the product             *)
(* step_size * g (rounded down or up, fixed per behaviour by `rounding`,   *)
(* so that the two modes enclose the real-number result of a monotone      *)
(* update) and the squaring inside f (argument cut to 1/100).              *)
(*                                                                         *)
(* Objects.  Every parameter state is an object on `heap`; a reference is  *)
(* an index into heap.  Two references alias iff they are equal.  A value  *)
(* is a record [kind, v]: kind "float" (v an integer), "ndarray" (v a      *)
(* sequence), "list" (v a sequence of sequences: a Python list of arrays)  *)
(* or "dict" (v a record of weights and bias).                             *)
(***************************************************************************)
EXTENDS Integers, Sequences, FiniteSets

\* ---------------------------------------------------------------- bounds
\* fixed-point resolution: 1.0 is Scale units
Scale == 100000
\* n_iters ranges over 0..MaxIters in the generic runs
MaxIters == 3
\* the caller calls the optimizer at most MaxCalls times with the same arguments
MaxCalls == 2

\* ---------------------------------------------------------------- values
Float(c) == [kind |-> "float", v |-> c]
NdArray(s) == [kind |-> "ndarray", v |-> s]
PyList(s) == [kind |-> "list", v |-> s]
PyDict(w, b) == [kind |-> "dict", v |-> [weights |-> w, bias |-> b]]
\* None, the default of the argument init_x_D
PyNone == [kind |-> "NoneType", v |-> 0]
\* the exception raised by float * list, float * dict (and list - list)
TypeError == [kind |-> "TypeError", v |-> 0]

Fx(n) == n * Scale

\* ------------------------------------------------------------ arithmetic
RECURSIVE SumSeq(_)
SumSeq(s) == IF s = <<>> THEN 0 ELSE Head(s) + SumSeq(Tail(s))

\* n / d cut toward zero
Trunc(n, d) == IF n >= 0 THEN n \div d ELSE -((-n) \div d)

\* ag_np.square of one component (fixed point; argument cut to 1/100)
Square(c) ==
    LET c2 == Trunc(c, Scale \div 100)
    IN  (c2 * c2) * (Scale \div 10000)

\* w_D of Worked Example 2a
w_D == <<Fx(1), Fx(2)>>

\* the objective functions f of the notebook, by name
F(fname, x) ==
    CASE fname = "square" -> Square(x.v)
      [] fname = "dot" ->
            SumSeq([k \in DOMAIN x.v |-> (x.v[k] * (w_D[k] \div Scale))])
      [] fname = "sum_square" -> SumSeq([k \in DOMAIN x.v |-> Square(x.v[k])])
      [] fname = "list_sum_square" ->
            SumSeq([k \in DOMAIN x.v[1] |-> Square(x.v[1][k])])
            + SumSeq([k \in DOMAIN x.v[2] |-> Square(x.v[2][k])])
      [] fname = "dict_sum_square" ->
            SumSeq([k \in DOMAIN x.v.weights |-> Square(x.v.weights[k])])
            + Square(x.v.bias)

\* f(x_D) raises: ag_np.square(None) is a TypeError
FRaises(fname, x) == x.kind = "NoneType"

\* g = autograd.grad(f): same structure as the argument
G(fname, x) ==
    CASE fname = "square" -> Float(2 * x.v)
      [] fname = "dot" -> NdArray(w_D)
      [] fname = "sum_square" -> NdArray([k \in DOMAIN x.v |-> 2 * x.v[k]])
      [] fname = "list_sum_square" ->
            PyList([j \in DOMAIN x.v |-> [k \in DOMAIN x.v[j] |-> 2 * x.v[j][k]]])
      [] fname = "dict_sum_square" ->
            PyDict([k \in DOMAIN x.v.weights |-> 2 * x.v.weights[k]], 2 * x.v.bias)

\* step_size * c for one component: step_size is the rational num/den
StepTimes(step, c, mode) ==
    LET n == step.num * c
    IN  IF mode = "floor" THEN n \div step.den ELSE -((-n) \div step.den)

\* the product with step_size left out: x_D - g(x_D)
MulNoStep(step, gval, mode) ==
    IF gval.kind \in {"float", "ndarray"} THEN gval ELSE TypeError

\* step_size * g_D : float * float, float * ndarray; float * list and
\* float * dict raise TypeError
Mul(step, gval, mode) ==
    CASE gval.kind = "float" -> Float(StepTimes(step, gval.v, mode))
      [] gval.kind = "ndarray" ->
            NdArray([k \in DOMAIN gval.v |-> StepTimes(step, gval.v[k], mode)])
      [] OTHER -> TypeError

\* x_D - (step_size * g_D) : element-wise for float and ndarray
Sub(x, d) ==
    CASE d.kind = "TypeError" -> TypeError
      [] x.kind = "float" /\ d.kind = "float" -> Float(x.v - d.v)
      [] x.kind = "ndarray" /\ d.kind = "ndarray" ->
            NdArray([k \in DOMAIN x.v |-> x.v[k] - d.v[k]])
      [] OTHER -> TypeError

\* the right-hand side of  x_D = x_D - step_size * g(x_D)
GdUpdate(fname, x, step, mode) == Sub(x, Mul(step, G(fname, x), mode))


\* ------------------------------------------------------------------ heap
\* the kinds whose objects cannot be changed in place
Immutable == {"float", "NoneType"}

\* copy.deepcopy(init_x_D): a new object with an equal value; an immutable
\* atomic object (float, None) is returned as it is
NoCopy(h, ref) == [heap |-> h, ref |-> ref]

DeepCopy(h, ref) ==
    IF h[ref].kind \in Immutable
    THEN [heap |-> h, ref |-> ref]
    ELSE [heap |-> Append(h, h[ref]), ref |-> Len(h) + 1]

\* x_D = <expression>: the expression's value is a new object and the name
\* x_D is bound to it; the object x_D named before is left as it was
InPlace(h, ref, val) == [heap |-> [h EXCEPT ![ref] = val], ref |-> ref]

Rebind(h, ref, val) == [heap |-> Append(h, val), ref |-> Len(h) + 1]

\* history['x_D'].append(x_D): the list stores the reference itself
Snapshot(ref) == ref

\* if iter_id > 0:
UpdateAlways(iter) == iter >= 0

ShouldUpdate(iter) == iter > 0

\* for iter_id in range(n_iters): is there a loop index left to run
RangeAtLeastOnce(iter, n) == iter < n \/ iter = 0

\* range(n_iters - 1): the loop stops one index early
RangeStopsEarly(iter, n) == iter < n - 1

RangeHasNext(iter, n) == iter < n

\* what the caller gets when an exception leaves the function: the exception,
\* and neither a state nor a history
PartialResult(h, ref, hist) ==
    [status |-> "returned", x_D |-> <<h[ref]>>,
     history |-> [iter |-> hist.iter, f |-> hist.f,
                  x_D |-> [j \in DOMAIN hist.x_D |-> h[hist.x_D[j]]],
                  g_D |-> hist.g_D]]

RaisedResult(h, ref, hist) ==
    [status |-> "raised", x_D |-> <<>>,
     history |-> [iter |-> <<>>, f |-> <<>>, x_D |-> <<>>, g_D |-> <<>>]]

\* history = dict(iter=[], f=[], x_D=[], g_D=[])
EmptyHistory == [iter |-> <<>>, f |-> <<>>, x_D |-> <<>>, g_D |-> <<>>]

\* the four appends of one loop iteration
AppendHistory(hist, iter, fval, ref, gval) ==
    [iter |-> Append(hist.iter, iter),
     f    |-> Append(hist.f, fval),
     x_D  |-> Append(hist.x_D, Snapshot(ref)),
     g_D  |-> Append(hist.g_D, gval)]

\* a history with its snapshots read through the heap
HistoryValues(h, hist) ==
    [iter |-> hist.iter,
     f    |-> hist.f,
     x_D  |-> [j \in DOMAIN hist.x_D |-> h[hist.x_D[j]]],
     g_D  |-> hist.g_D]

\* ---------------------------------------------------------------- inputs
StepSizes == {[num |-> 1, den |-> 10], [num |-> 1, den |-> 100], [num |-> 3, den |-> 2]}

Roundings == {"floor", "ceil"}

Objectives == {"square", "dot", "sum_square", "list_sum_square", "dict_sum_square"}

InitialStates(fname) ==
    CASE fname = "square" ->
            {Float(Fx(5)), Float(Fx(1)), Float(0), Float(Fx(-3)), PyNone}
      [] fname \in {"dot", "sum_square"} ->
            {NdArray(<<Fx(6), Fx(4)>>), NdArray(<<Fx(-3), Fx(-5)>>),
             NdArray(<<0, 0>>), NdArray(<<Fx(1), Fx(2)>>)}
      [] fname = "list_sum_square" ->
            {PyList(<<  <<0>>, <<Fx(1), Fx(2)>>  >>),
             PyList(<<  <<Fx(3)>>, <<0, Fx(-1)>>  >>)}
      [] fname = "dict_sum_square" ->
            {PyDict(<<Fx(1), Fx(2)>>, 42 * (Scale \div 10)),
             PyDict(<<0, 0>>, 0)}

\* the 1-D quadratic run: f(x) = x^2, x0 = 5.0, step_size = 0.1, n_iters = 50
Quadratic1D ==
    [f |-> "square", x0 |-> Float(Fx(5)), n_iters |-> 50,
     step_size |-> [num |-> 1, den |-> 10]]

\* Worked Example 3a: f(x) = sum(square(x)), init_x_D = [6, 4, -3, -5],
\* n_iters = 1000, step_size = 0.01
Worked3a ==
    [f |-> "sum_square", x0 |-> NdArray(<<Fx(6), Fx(4), Fx(-3), Fx(-5)>>),
     n_iters |-> 1000, step_size |-> [num |-> 1, den |-> 100]]

\* the notebook's code cells in file order.  line: the first source line of
\* the cell; reads: the global names the cell needs bound when it runs (names
\* it loads before binding them itself, and the globals read by the bodies of
\* the functions it calls or hands to the optimizer); binds: the names it
\* binds (imports, defs, assignments); calls_gd: it calls
\* run_many_iters_of_gradient_descent
NotebookCells ==
    <<
      [line |-> 61, reads |-> {},
       binds |-> {"copy", "np", "pd"}, calls_gd |-> FALSE],
      [line |-> 73, reads |-> {},
       binds |-> {"ag_np", "autograd"}, calls_gd |-> FALSE],
      [line |-> 84, reads |-> {},
       binds |-> {"matplotlib", "plt", "sns"}, calls_gd |-> FALSE],
      [line |-> 168, reads |-> {},
       binds |-> {"f"}, calls_gd |-> FALSE],
      [line |-> 178, reads |-> {"ag_np", "f"},
       binds |-> {}, calls_gd |-> FALSE],
      [line |-> 187, reads |-> {"ag_np", "f"},
       binds |-> {}, calls_gd |-> FALSE],
      [line |-> 196, reads |-> {"ag_np", "f"},
       binds |-> {}, calls_gd |-> FALSE],
      [line |-> 223, reads |-> {"autograd", "f"},
       binds |-> {"g"}, calls_gd |-> FALSE],
      [line |-> 232, reads |-> {"ag_np", "g"},
       binds |-> {}, calls_gd |-> FALSE],
      [line |-> 244, reads |-> {"ag_np", "g"},
       binds |-> {}, calls_gd |-> FALSE],
      [line |-> 253, reads |-> {"ag_np", "g"},
       binds |-> {}, calls_gd |-> FALSE],
      [line |-> 262, reads |-> {"ag_np", "g"},
       binds |-> {}, calls_gd |-> FALSE],
      [line |-> 278, reads |-> {"ag_np", "f", "g", "np", "plt"},
       binds |-> {"fig_h", "subplot_grid", "x_grid_G"}, calls_gd |-> FALSE],
      [line |-> 353, reads |-> {"np"},
       binds |-> {"D", "w_D"}, calls_gd |-> FALSE],
      [line |-> 371, reads |-> {},
       binds |-> {"f"}, calls_gd |-> FALSE],
      [line |-> 388, reads |-> {"autograd", "f"},
       binds |-> {"g"}, calls_gd |-> FALSE],
      [line |-> 404, reads |-> {"D", "ag_np", "f", "np", "w_D"},
       binds |-> {"x_D"}, calls_gd |-> FALSE],
      [line |-> 423, reads |-> {"ag_np", "g", "w_D", "x_D"},
       binds |-> {}, calls_gd |-> FALSE],
      [line |-> 439, reads |-> {"ag_np", "f", "np", "w_D"},
       binds |-> {"x_D"}, calls_gd |-> FALSE],
      [line |-> 458, reads |-> {"ag_np", "g", "w_D", "x_D"},
       binds |-> {}, calls_gd |-> FALSE],
      [line |-> 484, reads |-> {},
       binds |-> {"run_many_iters_of_gradient_descent"}, calls_gd |-> FALSE],
      [line |-> 549, reads |-> {"autograd", "np"},
       binds |-> {"D", "f", "g", "init_x_D"}, calls_gd |-> FALSE],
      [line |-> 565, reads |-> {"ag_np", "copy", "f", "g", "init_x_D", "run_many_iters_of_gradient_descent"},
       binds |-> {"history", "opt_x_D"}, calls_gd |-> TRUE],
      [line |-> 574, reads |-> {"D", "history", "np", "plt"},
       binds |-> {"d", "fig_h", "subplot_grid"}, calls_gd |-> FALSE],
      [line |-> 637, reads |-> {"np"},
       binds |-> {"D", "N", "sigma", "train_prng", "true_bias", "true_w_D", "x_ND", "y_N"}, calls_gd |-> FALSE],
      [line |-> 666, reads |-> {"np", "pd", "sns", "x_ND", "y_N"},
       binds |-> {}, calls_gd |-> FALSE],
      [line |-> 676, reads |-> {},
       binds |-> {"calc_squared_error_loss"}, calls_gd |-> FALSE],
      [line |-> 687, reads |-> {"ag_np", "calc_squared_error_loss", "true_w_D", "x_ND", "y_N"},
       binds |-> {}, calls_gd |-> FALSE],
      [line |-> 698, reads |-> {"np"},
       binds |-> {"init_w_D"}, calls_gd |-> FALSE],
      [line |-> 709, reads |-> {"ag_np", "calc_squared_error_loss", "init_w_D", "x_ND", "y_N"},
       binds |-> {}, calls_gd |-> FALSE],
      [line |-> 720, reads |-> {"autograd", "calc_squared_error_loss"},
       binds |-> {"calc_grad_wrt_w"}, calls_gd |-> FALSE],
      [line |-> 731, reads |-> {"ag_np", "calc_grad_wrt_w", "init_w_D", "x_ND", "y_N"},
       binds |-> {}, calls_gd |-> FALSE],
      [line |-> 751, reads |-> {"ag_np", "calc_grad_wrt_w", "calc_loss", "copy", "init_w_D", "run_many_iters_of_gradient_descent", "x_ND", "y_N"},
       binds |-> {"history", "opt_w_D"}, calls_gd |-> TRUE],
      [line |-> 764, reads |-> {"D", "history", "np", "plt"},
       binds |-> {"d", "fig_h", "subplot_grid"}, calls_gd |-> FALSE],
      [line |-> 812, reads |-> {"autograd"},
       binds |-> {"f", "g"}, calls_gd |-> FALSE],
      [line |-> 824, reads |-> {"ag_np", "g", "np"},
       binds |-> {"w_list_of_arr"}, calls_gd |-> FALSE],
      [line |-> 846, reads |-> {"autograd"},
       binds |-> {"f", "g"}, calls_gd |-> FALSE],
      [line |-> 857, reads |-> {"ag_np", "g", "np"},
       binds |-> {"dict_of_arr"}, calls_gd |-> FALSE]
    >>

\* values the caller writes into component 0 of a returned state
MutValues == {Fx(99), Fx(-7)}

\* opt_x_D[0] = c (ndarray), opt[0][0] = c (list), opt['bias'] = c (dict)
SetComponent(x, c) ==
    CASE x.kind = "ndarray" -> NdArray([x.v EXCEPT ![1] = c])
      [] x.kind = "list" -> PyList([x.v EXCEPT ![1][1] = c])
      [] x.kind = "dict" -> [x EXCEPT !.v.bias = c]

\* ----------------------------------------------------------------- state
VARIABLES
    f,            \* the objective (g is its gradient)
    n_iters,      \* argument n_iters
    step_size,    \* argument step_size
    rounding,     \* rounding of the fixed-point product
    x0,           \* the value of the caller's initial state before the first call
    heap,         \* the objects: heap[ref] is the value of object ref
    init_x_D,     \* the caller's initial-state object (a reference)
    pc,           \* "idle", "loop", "done", "error"
    calls,        \* calls made so far
    x_D,          \* local x_D of the running call (a reference; 0 = unbound)
    iter_id,      \* the next loop index
    history,      \* local history of the running call
    n_f, n_g,     \* evaluations of f and of g in the current call
    opt_x_D,      \* the caller's variable holding the returned state (0 = unbound)
    opt_history,  \* the caller's variable holding the returned history
    ret,          \* per finished call: what it returned, by value, at return time
    cell,         \* notebook: index of the next code cell to run (0: no notebook)
    names,        \* notebook: the global names bound so far
    undefined     \* notebook: the NameErrors raised, as [line, name]

vars == <<f, n_iters, step_size, rounding, x0, heap, init_x_D, pc, calls, x_D,
          iter_id, history, n_f, n_g, opt_x_D, opt_history, ret,
          cell, names, undefined>>

nbvars == <<cell, names, undefined>>

gdvars == <<heap, pc, calls, x_D, iter_id, history, n_f, n_g, opt_x_D,
            opt_history, ret>>

args == <<f, n_iters, step_size, rounding, x0, init_x_D>>

InitCommon ==
    /\ heap = <<x0>>
    /\ init_x_D = 1
    /\ pc = "idle"
    /\ calls = 0
    /\ x_D = 0
    /\ iter_id = 0
    /\ history = EmptyHistory
    /\ n_f = 0
    /\ n_g = 0
    /\ opt_x_D = 0
    /\ opt_history = EmptyHistory
    /\ ret = <<>>

\* the caller is not the notebook
NoNotebook ==
    /\ cell = 0
    /\ names = {}
    /\ undefined = {}

InitGeneric ==
    /\ NoNotebook
    /\ f \in Objectives
    /\ x0 \in InitialStates(f)
    /\ n_iters \in 0..MaxIters
    /\ step_size \in StepSizes
    /\ rounding \in Roundings
    /\ InitCommon

InitQuadratic1D ==
    /\ NoNotebook
    /\ f = Quadratic1D.f
    /\ x0 = Quadratic1D.x0
    /\ n_iters = Quadratic1D.n_iters
    /\ step_size = Quadratic1D.step_size
    /\ rounding \in Roundings
    /\ InitCommon

Init == InitGeneric \/ InitQuadratic1D

\* --------------------------------------------------------------- actions
\* the caller calls run_many_iters_of_gradient_descent(f, g, init_x_D, n_iters,
\* step_size); the function copies the initial state and creates the history
Call ==
    /\ pc \in {"idle", "done", "error"}
    /\ calls < MaxCalls
    /\ LET dc == DeepCopy(heap, init_x_D)
       IN  /\ heap' = dc.heap
           /\ x_D' = dc.ref
    /\ history' = EmptyHistory
    /\ iter_id' = 0
    /\ n_f' = 0
    /\ n_g' = 0
    /\ calls' = calls + 1
    /\ pc' = "loop"
    /\ UNCHANGED <<args, nbvars, opt_x_D, opt_history, ret>>

\* one iteration of the loop body that runs to its end
IterateStep ==
    /\ pc = "loop"
    /\ RangeHasNext(iter_id, n_iters)
    /\ LET upd == ShouldUpdate(iter_id)
           val == IF upd THEN GdUpdate(f, heap[x_D], step_size, rounding)
                         ELSE heap[x_D]
           rb  == IF upd THEN Rebind(heap, x_D, val)
                         ELSE [heap |-> heap, ref |-> x_D]
           cur == rb.heap[rb.ref]
       IN  /\ val.kind # "TypeError"
           /\ ~FRaises(f, val)
           /\ heap' = rb.heap
           /\ x_D' = rb.ref
           /\ history' = AppendHistory(history, iter_id, F(f, cur), rb.ref, G(f, cur))
           /\ n_f' = n_f + 1
           /\ n_g' = n_g + (IF upd THEN 2 ELSE 1)
    /\ iter_id' = iter_id + 1
    /\ UNCHANGED <<args, nbvars, pc, calls, opt_x_D, opt_history, ret>>

\* one iteration that raises, in the update (x_D - step_size * g(x_D)) or in
\* f(x_D): the exception leaves the function, its locals are gone and nothing
\* is returned
IterateRaise ==
    /\ pc = "loop"
    /\ RangeHasNext(iter_id, n_iters)
    /\ LET upd == ShouldUpdate(iter_id)
           val == IF upd THEN GdUpdate(f, heap[x_D], step_size, rounding)
                         ELSE heap[x_D]
       IN  \/ /\ val.kind = "TypeError"
              /\ n_g' = n_g + 1
              /\ n_f' = n_f
           \/ /\ val.kind # "TypeError"
              /\ FRaises(f, val)
              /\ n_g' = n_g + (IF upd THEN 1 ELSE 0)
              /\ n_f' = n_f + 1
    /\ pc' = "error"
    /\ x_D' = 0
    /\ history' = EmptyHistory
    /\ ret' = Append(ret, RaisedResult(heap, x_D, history))
    /\ UNCHANGED <<args, nbvars, heap, calls, iter_id, opt_x_D, opt_history>>

Iterate == IterateStep \/ IterateRaise

\* return x_D, history
Return ==
    /\ pc = "loop"
    /\ ~RangeHasNext(iter_id, n_iters)
    /\ opt_x_D' = x_D
    /\ opt_history' = history
    /\ ret' = Append(ret, [status |-> "returned", x_D |-> <<heap[x_D]>>,
                           history |-> HistoryValues(heap, history)])
    /\ pc' = "done"
    /\ UNCHANGED <<args, nbvars, heap, calls, x_D, iter_id, history, n_f, n_g>>

\* after a call returned, the caller changes the returned state in place
\* (a float cannot be changed in place)
MutateReturned ==
    /\ pc = "done"
    /\ heap[opt_x_D].kind \notin Immutable
    /\ \E c \in MutValues :
          heap' = [heap EXCEPT ![opt_x_D] = SetComponent(@, c)]
    /\ UNCHANGED <<args, nbvars, pc, calls, x_D, iter_id, history, n_f, n_g,
                   opt_x_D, opt_history, ret>>

Next == Call \/ Iterate \/ Return \/ MutateReturned

Spec == Init /\ [][Next]_vars

\* a call that has started goes on: the function is one synchronous loop with
\* no suspension point, so an enabled iteration or return is taken
FairSpec ==
    /\ Spec
    /\ WF_vars(IterateStep)
    /\ WF_vars(IterateRaise)
    /\ WF_vars(Return)

\* ------------------------------------------------------------- notebook
\* the notebook run cell by cell, in file order, from a fresh namespace; the
\* optimizer's arguments are those of the one call the run reaches (Worked
\* Example 3a)
InitNotebook ==
    /\ f = Worked3a.f
    /\ x0 = Worked3a.x0
    /\ n_iters = Worked3a.n_iters
    /\ step_size = Worked3a.step_size
    /\ rounding \in Roundings
    /\ InitCommon
    /\ cell = 1
    /\ names = {}
    /\ undefined = {}

CellReady ==
    /\ cell \in DOMAIN NotebookCells
    /\ NotebookCells[cell].reads \subseteq names

\* a cell that does not call the optimizer runs and binds its names
RunCell ==
    /\ pc # "loop"
    /\ CellReady
    /\ ~NotebookCells[cell].calls_gd
    /\ names' = names \cup NotebookCells[cell].binds
    /\ cell' = cell + 1
    /\ UNCHANGED <<args, gdvars, undefined>>

\* a cell reads a name that is not bound: NameError, the cell binds nothing
CellNameError ==
    /\ pc # "loop"
    /\ cell \in DOMAIN NotebookCells
    /\ ~(NotebookCells[cell].reads \subseteq names)
    /\ undefined' = undefined \cup
          {[line |-> NotebookCells[cell].line, name |-> n] :
              n \in NotebookCells[cell].reads \ names}
    /\ cell' = cell + 1
    /\ UNCHANGED <<args, gdvars, names>>

\* opt_x_D, history = run_many_iters_of_gradient_descent(...): the call
CellCall ==
    /\ pc = "idle"
    /\ CellReady
    /\ NotebookCells[cell].calls_gd
    /\ Call

\* ... and the assignment of what it returned
CellReturn ==
    /\ pc = "done"
    /\ cell \in DOMAIN NotebookCells
    /\ NotebookCells[cell].calls_gd
    /\ names' = names \cup NotebookCells[cell].binds
    /\ cell' = cell + 1
    /\ pc' = "idle"
    /\ UNCHANGED <<args, heap, calls, x_D, iter_id, history, n_f, n_g, opt_x_D,
                   opt_history, ret, undefined>>

\* the update of an ndarray state cannot raise, so the loop body of the
\* notebook's call always runs to its end
NextNotebook ==
    RunCell \/ CellNameError \/ CellCall \/ IterateStep \/ Return \/ CellReturn

SpecNotebook == InitNotebook /\ [][NextNotebook]_vars

\* ============================================================== claims
\* helpers of the claims' formulas
Returned == {k \in DOMAIN ret : ret[k].status = "returned"}

\* n gradient update steps applied to value x, one after the other
RECURSIVE ApplyUpdates(_, _)
ApplyUpdates(x, n) ==
    IF n = 0 \/ x.kind = "TypeError" THEN x
    ELSE ApplyUpdates(GdUpdate(f, x, step_size, rounding), n - 1)

\* 0, 1, ..., n-1
UpTo(n) == [j \in 1..n |-> j - 1]

\* the loop has just completed index iter_id
LoopStep == pc = "loop" /\ pc' = "loop" /\ iter_id' = iter_id + 1

\* C1: for n_iters >= 1 the returned final state is x0 after n_iters update
\* steps  state <- state - step_size * g(state).
\* (The code applies n_iters - 1 steps: this statement is violated.)
C1_FinalIsNItersUpdates ==
    \A k \in Returned :
        n_iters >= 1 =>
            LET want == ApplyUpdates(x0, n_iters)
            IN  want.kind = x0.kind /\ ret[k].x_D[1] = want

\* C2: the returned history holds exactly n_iters entries in each of its four
\* sequences, with indices 0..n_iters-1 in order; during the run the history
\* is append-only: after loop index i it holds i+1 entries and entries 0..i-1
\* are what they were before iteration i.
C2_HistoryAppendOnly ==
    [][ /\ LoopStep =>
             /\ Len(history'.iter) = iter_id + 1
             /\ Len(history'.f) = iter_id + 1
             /\ Len(history'.x_D) = iter_id + 1
             /\ Len(history'.g_D) = iter_id + 1
             /\ history'.iter[iter_id + 1] = iter_id
             /\ \A j \in 1..iter_id :
                   /\ j <= Len(history.iter)
                   /\ history'.iter[j] = history.iter[j]
                   /\ history'.f[j] = history.f[j]
                   /\ heap'[history'.x_D[j]] = heap[history.x_D[j]]
                   /\ history'.g_D[j] = history.g_D[j]
        /\ (pc = "loop" /\ pc' = "done") =>
             /\ opt_history'.iter = UpTo(n_iters)
             /\ Len(opt_history'.f) = n_iters
             /\ Len(opt_history'.x_D) = n_iters
             /\ Len(opt_history'.g_D) = n_iters
      ]_vars

C2_Witness ==
    /\ pc = "done"
    /\ n_iters = MaxIters
    /\ Len(opt_history.x_D) = MaxIters
    /\ heap[opt_history.x_D[1]] # heap[opt_history.x_D[2]]

C4_InitialStateNotMutated ==
    /\ heap[init_x_D] = x0
    /\ x0.kind \notin Immutable =>
          /\ x_D # init_x_D
          /\ opt_x_D # init_x_D
          /\ \A j \in DOMAIN history.x_D : history.x_D[j] # init_x_D
          /\ \A j \in DOMAIN opt_history.x_D : opt_history.x_D[j] # init_x_D

C4_Witness ==
    /\ pc = "done"
    /\ x0.kind = "ndarray"
    /\ calls = MaxCalls
    /\ n_iters >= 2
    /\ heap[opt_x_D] # x0
    /\ heap[opt_x_D] # ret[Len(ret)].x_D[1]

\* C5: two calls with identical inputs (same f and g, same initial-state
\* object, same n_iters and step_size) give identical results: the same
\* final state and the same history, entry by entry (or both raise).
C5_Deterministic ==
    \A j, k \in DOMAIN ret : ret[j] = ret[k]

C5_Witness ==
    /\ Len(ret) >= 2
    /\ ret[2].status = "returned"
    /\ Len(ret[2].history.iter) >= 2
    /\ ret[2].x_D[1] # x0
    /\ \E r \in DOMAIN heap :
          /\ heap[r].kind = "ndarray"
          /\ heap[r] = SetComponent(ret[1].x_D[1], Fx(99))

\* the scalar components of a value, in order
Flat(x) ==
    CASE x.kind = "float" -> <<x.v>>
      [] x.kind = "ndarray" -> x.v
      [] x.kind = "list" -> x.v[1] \o x.v[2]
      [] x.kind = "dict" -> x.v.weights \o <<x.v.bias>>

SameShape(x, y) ==
    /\ x.kind = y.kind
    /\ Len(Flat(x)) = Len(Flat(y))
    /\ x.kind = "list" =>
          Len(x.v) = Len(y.v) /\ \A j \in DOMAIN x.v : Len(x.v[j]) = Len(y.v[j])
    /\ x.kind = "dict" => Len(x.v.weights) = Len(y.v.weights)

\* the loop is about to run an index at which it updates the state
AtUpdate == pc = "loop" /\ iter_id >= 1 /\ iter_id < n_iters

\* the step replaced every component c by c - step_size * (component of g)
ElementwiseStep ==
    /\ pc' = "loop"
    /\ iter_id' = iter_id + 1
    /\ LET old == heap[x_D]
           new == heap'[x_D']
           gr  == Flat(G(f, old))
       IN  /\ SameShape(new, old)
           /\ \A k \in DOMAIN Flat(old) :
                 Flat(new)[k] = Flat(old)[k] - StepTimes(step_size, gr[k], rounding)

C7_ReturnedIsBest ==
    \A k \in Returned :
        n_iters >= 1 =>
            \A j \in DOMAIN ret[k].history.f :
                F(f, ret[k].x_D[1]) <= ret[k].history.f[j]

\* C8: every snapshot in the history is an independent copy, not an alias of
\* the live or the returned state: no two entries are the same object, and
\* once the call has returned, an in-place change of the returned state
\* leaves every snapshot, the last one included, as it was.
\* (The code appends x_D itself: this statement is violated.)
C8_SnapshotsAreCopies ==
    [][ /\ \A i, j \in DOMAIN history'.x_D :
              i # j => history'.x_D[i] # history'.x_D[j]
        /\ pc = "done" =>
              \A j \in DOMAIN opt_history.x_D :
                  heap'[opt_history.x_D[j]] = heap[opt_history.x_D[j]]
      ]_vars

\* C9: with n_iters = 0 the optimizer calls neither f nor g, returns a state
\* equal to the initial state and a history whose four sequences are empty.
C9_ZeroIterations ==
    n_iters = 0 =>
        /\ n_f = 0
        /\ n_g = 0
        /\ pc # "error"
        /\ history = EmptyHistory
        /\ opt_history = EmptyHistory
        /\ \A k \in DOMAIN ret :
              /\ ret[k].status = "returned"
              /\ ret[k].x_D = <<x0>>
              /\ ret[k].history = EmptyHistory

C9_Witness ==
    /\ n_iters = 0
    /\ pc = "done"
    /\ calls = MaxCalls
    /\ Len(ret) = MaxCalls
    /\ x0.kind = "dict"

\* the arguments are those of the 1-D quadratic run
IsQuadratic1D ==
    /\ f = Quadratic1D.f
    /\ x0 = Quadratic1D.x0
    /\ n_iters = Quadratic1D.n_iters
    /\ step_size = Quadratic1D.step_size

Abs(n) == IF n >= 0 THEN n ELSE -n

\* C10: for f(x) = x^2, g(x) = 2x, x0 = 5.0, step_size = 0.1 and
\* n_iters = 50 the returned final state is within 1e-3 of 0.0.
C10_QuadraticConverges ==
    IsQuadratic1D =>
        \A k \in Returned : Abs(ret[k].x_D[1].v) <= Scale \div 1000

C10_Witness ==
    /\ IsQuadratic1D
    /\ pc = "done"
    /\ Len(ret) >= 1
    /\ Len(ret[1].history.iter) = Quadratic1D.n_iters
    /\ ret[1].history.x_D[1] = Quadratic1D.x0
    /\ ret[1].x_D[1] # Quadratic1D.x0

\* the arguments are those of Worked Example 3a
IsWorked3a ==
    /\ f = Worked3a.f
    /\ x0 = Worked3a.x0
    /\ n_iters = Worked3a.n_iters
    /\ step_size = Worked3a.step_size

\* C11: for f(x) = sum(x_i^2), x0 = [6, 4, -3, -5], step_size = 0.01 and
\* n_iters = 1000 the recorded objective values are non-increasing along the
\* history and every component of the final state is within 1e-3 of 0.
C11_Worked3aConverges ==
    IsWorked3a =>
        \A k \in Returned :
            /\ \A i \in 1..(Len(ret[k].history.f) - 1) :
                  ret[k].history.f[i + 1] <= ret[k].history.f[i]
            /\ \A c \in DOMAIN ret[k].x_D[1].v :
                  Abs(ret[k].x_D[1].v[c]) <= Scale \div 1000

C11_Witness ==
    /\ IsWorked3a
    /\ Len(ret) >= 1
    /\ ret[1].status = "returned"
    /\ Len(ret[1].history.f) = Worked3a.n_iters
    /\ ret[1].history.x_D[1] = Worked3a.x0
    /\ ret[1].history.f[Worked3a.n_iters] < ret[1].history.f[1]

\* the current call has stopped, by returning or by raising
Stopped == pc \in {"done", "error"}

\* the call that stopped ran every loop index 0..n_iters-1 once, in
\* increasing order, and returned
RanFullBudget ==
    /\ pc = "done"
    /\ iter_id = n_iters
    /\ opt_history.iter = UpTo(n_iters)
    /\ ret[Len(ret)].status = "returned"
    /\ ret[Len(ret)].history.iter = UpTo(n_iters)

WillRaise ==
    /\ pc = "loop"
    /\ iter_id < n_iters
    /\ LET val == IF iter_id > 0 THEN GdUpdate(f, heap[x_D], step_size, rounding)
                                 ELSE heap[x_D]
       IN  val.kind = "TypeError" \/ FRaises(f, val)

\* C13: if f, g or the update arithmetic fails at loop index k the run fails
\* there: the error reaches the caller, no later loop index is executed, the
\* step is not retried, and neither a final state nor a partial history is
\* returned.
C13_FailsOutright ==
    [][ /\ WillRaise =>
             /\ pc' = "error"
             /\ ret' = Append(ret, [status |-> "raised", x_D |-> <<>>,
                                    history |-> EmptyHistory])
             /\ opt_x_D' = opt_x_D
             /\ opt_history' = opt_history
             /\ heap' = heap
             /\ history' = EmptyHistory
        /\ pc = "error" =>
             /\ pc' = "loop"
             /\ calls' = calls + 1
             /\ iter_id' = 0
             /\ history' = EmptyHistory
             /\ ret' = ret
      ]_vars

C13_Witness ==
    /\ pc = "error"
    /\ calls = MaxCalls
    /\ x0.kind = "list"
    /\ n_iters = MaxIters
    /\ iter_id = 1
    /\ Len(ret) = MaxCalls
    /\ \A k \in DOMAIN ret : ret[k].status = "raised"
    /\ opt_x_D = 0

\* history h (snapshots by value) and final state x are consistent: every
\* entry records f and g of its own snapshot, each snapshot is the one before
\* it minus step_size times the gradient recorded with that one, component by
\* component, and x is the last snapshot
Consistent(h, x) ==
    /\ \A i \in DOMAIN h.x_D :
          /\ h.f[i] = F(f, h.x_D[i])
          /\ h.g_D[i] = G(f, h.x_D[i])
    /\ \A i \in 1..(Len(h.x_D) - 1) :
          /\ SameShape(h.x_D[i + 1], h.x_D[i])
          /\ \A c \in DOMAIN Flat(h.x_D[i]) :
                Flat(h.x_D[i + 1])[c] =
                    Flat(h.x_D[i])[c]
                    - StepTimes(step_size, Flat(h.g_D[i])[c], rounding)
    /\ Len(h.x_D) >= 1 => x = h.x_D[Len(h.x_D)]

C15_NoUndefinedName == undefined = {}

====
